---- MODULE Spec2Model ----
(***************************************************************************)
(* Model of scripts/chatgpt.py: the Markdown conversation segmenter        *)
(* (classify, content_from, conversation_parts) and its consumer process. *)
(* Text is a sequence of one-character strings; a list of lines is a       *)
(* sequence of such sequences.                                             *)
(***************************************************************************)
EXTENDS Integers, Sequences, FiniteSets, TLC

(* ---------------------------------------------------------------------- *)
(* Alphabet and bounds                                                     *)
(* ---------------------------------------------------------------------- *)

NL == "\n"

SP == " "

\* one ordinary character, one whitespace character, the two markers and
\* the line separator
Chars == {"a", SP, ">", "#", NL}

\* longest document handed to conversation_parts in Spec
MaxLen == 6

\* longest document handed to conversation_parts in FairSpec
MaxLiveLen == 3

\* longest document handed to process in ProcessSpec
MaxDocLen == 3

\* longest reply the completion service returns in ProcessSpec
MaxReplyLen == 3

Texts(n) == UNION {[1..k -> Chars] : k \in 0..n}

(* ---------------------------------------------------------------------- *)
(* str methods used by the program                                         *)
(* ---------------------------------------------------------------------- *)

\* the characters str.strip() / str.rstrip() remove when called without argument
Whitespace == {SP, NL}

RECURSIVE lstrip(_, _)
lstrip(s, cs) ==
    IF s # <<>> /\ s[1] \in cs THEN lstrip(Tail(s), cs) ELSE s

RECURSIVE rstrip(_, _)
rstrip(s, cs) ==
    IF s # <<>> /\ s[Len(s)] \in cs THEN rstrip(SubSeq(s, 1, Len(s) - 1), cs) ELSE s

strip(s) == rstrip(lstrip(s, Whitespace), Whitespace)

RECURSIVE SplitFrom(_, _)
SplitFrom(rest, cur) ==
    IF rest = <<>> THEN (IF cur = <<>> THEN <<>> ELSE <<cur>>)
    ELSE IF rest[1] = NL THEN <<cur>> \o SplitFrom(Tail(rest), <<>>)
    ELSE SplitFrom(Tail(rest), Append(cur, rest[1]))

\* str.splitlines(): no line holds a separator, a final separator opens no line
splitlines(s) == SplitFrom(s, <<>>)

\* "\n".join(ls)
RECURSIVE join(_)
join(ls) ==
    IF ls = <<>> THEN <<>>
    ELSE IF Len(ls) = 1 THEN ls[1]
    ELSE ls[1] \o <<NL>> \o join(Tail(ls))

startswith(s, c) == s # <<>> /\ s[1] = c

(* ---------------------------------------------------------------------- *)
(* The segmenter                                                           *)
(* ---------------------------------------------------------------------- *)

Kind == {"undefined", "header", "user", "assistant", "space"}

\* SPACES.sub left out: blank-line runs are kept as they are
SPACES_subNone(s) == s

\* SPACES.sub("\n\n", s) with SPACES = re.compile(r"\n(\n+)"): every maximal
\* run of two or more newlines becomes exactly two
RECURSIVE SPACES_sub(_)
SPACES_sub(s) ==
    IF s = <<>> THEN <<>>
    ELSE IF s[1] = NL /\ Len(s) >= 2 /\ s[2] = NL
         THEN <<NL, NL>> \o SPACES_sub(lstrip(s, {NL}))
    ELSE <<s[1]>> \o SPACES_sub(Tail(s))

\* classify without its blank-line case falling through to a value
classifyPartial(line) ==
    IF startswith(line, "#") THEN "header"
    ELSE IF startswith(line, ">") THEN "assistant"
    ELSE IF strip(line) = <<>> THEN "undefined"
    ELSE "user"

classify(line) ==
    IF startswith(line, "#") THEN "header"
    ELSE IF startswith(line, ">") THEN "assistant"
    ELSE IF strip(line) = <<>> THEN "space"
    ELSE "user"

\* the two strips in the other order: line.strip().lstrip(">")
StripLinesStripFirst(ls) == [i \in 1..Len(ls) |-> lstrip(strip(ls[i]), {">"})]

\* line.lstrip(">").strip() for line in lines
StripLines(ls) == [i \in 1..Len(ls) |-> strip(lstrip(ls[i], {">"}))]

\* content_from without the .strip() of the joined text
content_fromNoStrip(ls) == SPACES_sub(join(StripLines(ls)))

content_from(ls) == SPACES_sub(strip(join(StripLines(ls))))

\* length of the longest prefix of ls whose lines all classify as k
RECURSIVE RunLen(_, _)
RunLen(ls, k) ==
    IF ls # <<>> /\ classify(ls[1]) = k THEN 1 + RunLen(Tail(ls), k) ELSE 0

\* itertools.groupby(lines, key=classify): the maximal runs, in order
RECURSIVE groupby(_)
groupby(ls) ==
    IF ls = <<>> THEN <<>>
    ELSE LET k == classify(ls[1])
             n == RunLen(ls, k)
         IN  <<[key |-> k, group |-> SubSeq(ls, 1, n)]>>
                 \o groupby(SubSeq(ls, n + 1, Len(ls)))

Yield(st) == Append(st.out, [role |-> st.last_kind, content |-> content_from(st.block)])

\* the loop body with the flush branch forgetting last_kind = kind
PartsIterKeepsRole(st, g) ==
    IF st.last_kind = "undefined" /\ g.key \notin {"user", "assistant"} THEN st
    ELSE LET s1 == IF st.last_kind = "undefined"
                   THEN [st EXCEPT !.last_kind = g.key] ELSE st
         IN  IF g.key = "header" THEN s1
             ELSE IF g.key = s1.last_kind \/ g.key = "space"
                  THEN [s1 EXCEPT !.block = @ \o g.group]
             ELSE [last_kind |-> s1.last_kind, block |-> g.group, out |-> Yield(s1)]

\* the loop body with the leading skip passing over headers only
PartsIterBlankOpens(st, g) ==
    IF st.last_kind = "undefined" /\ g.key = "header" THEN st
    ELSE LET s1 == IF st.last_kind = "undefined"
                   THEN [st EXCEPT !.last_kind = g.key] ELSE st
         IN  IF g.key = "header" THEN s1
             ELSE IF g.key = s1.last_kind \/ g.key = "space"
                  THEN [s1 EXCEPT !.block = @ \o g.group]
             ELSE [last_kind |-> g.key, block |-> g.group, out |-> Yield(s1)]

\* the loop body without the header test: a header run flushes like any
\* other change of kind
PartsIterHeaderFlushes(st, g) ==
    IF st.last_kind = "undefined" /\ g.key \notin {"user", "assistant"} THEN st
    ELSE LET s1 == IF st.last_kind = "undefined"
                   THEN [st EXCEPT !.last_kind = g.key] ELSE st
         IN  IF g.key = s1.last_kind \/ g.key = "space"
             THEN [s1 EXCEPT !.block = @ \o g.group]
             ELSE [last_kind |-> g.key, block |-> g.group, out |-> Yield(s1)]

\* the loop body merging only runs of the open block's own kind: a blank
\* run flushes
PartsIterBlankFlushes(st, g) ==
    IF st.last_kind = "undefined" /\ g.key \notin {"user", "assistant"} THEN st
    ELSE LET s1 == IF st.last_kind = "undefined"
                   THEN [st EXCEPT !.last_kind = g.key] ELSE st
         IN  IF g.key = "header" THEN s1
             ELSE IF g.key = s1.last_kind
                  THEN [s1 EXCEPT !.block = @ \o g.group]
             ELSE [last_kind |-> g.key, block |-> g.group, out |-> Yield(s1)]

\* the loop body putting a merged run in front of the open block
PartsIterPrepends(st, g) ==
    IF st.last_kind = "undefined" /\ g.key \notin {"user", "assistant"} THEN st
    ELSE LET s1 == IF st.last_kind = "undefined"
                   THEN [st EXCEPT !.last_kind = g.key] ELSE st
         IN  IF g.key = "header" THEN s1
             ELSE IF g.key = s1.last_kind \/ g.key = "space"
                  THEN [s1 EXCEPT !.block = g.group \o @]
             ELSE [last_kind |-> g.key, block |-> g.group, out |-> Yield(s1)]

\* the loop body whose flush opens an empty block instead of list(group)
PartsIterDropsGroup(st, g) ==
    IF st.last_kind = "undefined" /\ g.key \notin {"user", "assistant"} THEN st
    ELSE LET s1 == IF st.last_kind = "undefined"
                   THEN [st EXCEPT !.last_kind = g.key] ELSE st
         IN  IF g.key = "header" THEN s1
             ELSE IF g.key = s1.last_kind \/ g.key = "space"
                  THEN [s1 EXCEPT !.block = @ \o g.group]
             ELSE [last_kind |-> g.key, block |-> <<>>, out |-> Yield(s1)]

\* one iteration of the for loop of conversation_parts over the run g
PartsIter(st, g) ==
    IF st.last_kind = "undefined" /\ g.key \notin {"user", "assistant"} THEN st
    ELSE LET s1 == IF st.last_kind = "undefined"
                   THEN [st EXCEPT !.last_kind = g.key] ELSE st
         IN  IF g.key = "header" THEN s1
             ELSE IF g.key = s1.last_kind \/ g.key = "space"
                  THEN [s1 EXCEPT !.block = @ \o g.group]
             ELSE [last_kind |-> g.key, block |-> g.group, out |-> Yield(s1)]

\* the statement after the loop: the final yield
PartsEnd(st) == IF st.block # <<>> THEN [st EXCEPT !.out = Yield(st)] ELSE st

PartsStart == [last_kind |-> "undefined", block |-> <<>>, out |-> <<>>]

RECURSIVE PartsLoop(_, _)
PartsLoop(st, gs) ==
    IF gs = <<>> THEN st ELSE PartsLoop(PartsIter(st, gs[1]), Tail(gs))

\* list(conversation_parts(ls))
conversation_parts(ls) == PartsEnd(PartsLoop(PartsStart, groupby(ls))).out

(* ---------------------------------------------------------------------- *)
(* The consumer                                                            *)
(* ---------------------------------------------------------------------- *)

\* format_reply prefixing ">" without the following space
format_replyNoSpace(text) ==
    LET ls == splitlines(text)
    IN  join([i \in 1..Len(ls) |-> <<">">> \o ls[i]])

format_reply(text) ==
    LET ls == splitlines(text)
    IN  join([i \in 1..Len(ls) |-> <<">", SP>> \o ls[i]])

\* the fixed first entry of messages; its text plays no part in any decision
SystemMessage == [role |-> "system", content |-> <<"a">>]

Messages(parts) == <<SystemMessage>> \o parts

\* the early-return test comparing against the wrong role
LastIsUser(msgs) == msgs[Len(msgs)].role = "user"

\* messages[-1]["role"] == Kind.assistant
LastIsAssistant(msgs) == msgs[Len(msgs)].role = "assistant"

\* the returned text built from content instead of content.rstrip()
ExtendedNoRstrip(doc, rep) == doc \o <<NL, NL>> \o format_reply(rep)

\* content.rstrip() + "\n\n" + format_reply(reply)
\* process appending the reply as the service gave it, without format_reply
ExtendedRaw(doc, rep) == rstrip(doc, Whitespace) \o <<NL, NL>> \o rep

Extended(doc, rep) == rstrip(doc, Whitespace) \o <<NL, NL>> \o format_reply(rep)

(* ---------------------------------------------------------------------- *)
(* scripts/jump_points.py: the points file                                 *)
(* ---------------------------------------------------------------------- *)

\* MAX_AGE = dt.timedelta(hours=1); time is counted in hours
MAX_AGE == 1

\* pids of the BBEdit processes
Pids == {1, 2}

\* cursor locations BBEdit hands over in BB_DOC_PATH, BB_DOC_SELSTART_LINE
\* and BB_DOC_SELSTART_COLUMN
Cursors ==
    { [filename |-> "a.py", line |-> 1, column |-> 1],
      [filename |-> "b.py", line |-> 2, column |-> 3] }

\* JumpPoint(filename, line, column, added)
JumpPoint(c, t) ==
    [filename |-> c.filename, line |-> c.line, column |-> c.column, added |-> t]

\* stands in a pop event for "no point": the pop returned early
NoPoint == [filename |-> "", line |-> 0, column |-> 0, added |-> 0]

\* the empty PointsMap
EmptyMap == <<>>

\* point.added >= oldest_time
Unexpired(ps, oldest) == SelectSeq(ps, LAMBDA pt : pt.added >= oldest)

\* get_points keeping every stored point, whatever its age
get_pointsNoExpiry(exists, f, oldest) ==
    IF ~exists THEN EmptyMap ELSE f

\* get_points dropping a pid's whole list as soon as one of its points expired
get_pointsDropsPid(exists, f, oldest) ==
    IF ~exists THEN EmptyMap
    ELSE [pid \in {q \in DOMAIN f : Unexpired(f[q], oldest) = f[q]} |-> f[pid]]

\* get_points(path, oldest_time): a missing file gives {}; otherwise each
\* pid's unexpired points, pids without any left out
get_points(exists, f, oldest) ==
    IF ~exists THEN EmptyMap
    ELSE [pid \in {q \in DOMAIN f : Unexpired(f[q], oldest) # <<>>}
              |-> Unexpired(f[pid], oldest)]

\* save_points(path, points_map): the file content written, pids with an
\* empty list left out
save_points(m) == [pid \in {q \in DOMAIN m : m[q] # <<>>} |-> m[pid]]

\* points_map.setdefault(pid, []).append(point)
PushMap(m, pid, point) ==
    [q \in DOMAIN m \cup {pid} |->
        IF q = pid
        THEN Append(IF pid \in DOMAIN m THEN m[pid] ELSE <<>>, point)
        ELSE m[q]]

\* pid_points.pop() returning the oldest point of the list
PoppedFirst(m, pid) == m[pid][1]

\* the point pid_points.pop() returns: the last of the list
Popped(m, pid) == m[pid][Len(m[pid])]

\* points_map after pid_points.pop()
PopMap(m, pid) == [m EXCEPT ![pid] = SubSeq(@, 1, Len(@) - 1)]

(* ---------------------------------------------------------------------- *)
(* State                                                                   *)
(* ---------------------------------------------------------------------- *)

\* most push and pop invocations in a behaviour of JumpSpec
MaxOps == 4

\* latest hour the clock reaches in JumpSpec
MaxTime == 3

\* most push and pop invocations in a behaviour of RaceSpec
MaxRaceOps == 3

\* longest document and longest reply in RerunSpec
MaxRerunLen == 2

VARIABLES
    content,      \* the document text
    lines,        \* content.splitlines()
    idx,          \* runs of groupby(lines) consumed so far
    last_kind,    \* conversation_parts: role of the open block
    block,        \* conversation_parts: raw lines of the open block
    out,          \* messages yielded so far
    pc,           \* "idle", "loop", "returned" (generator exhausted), "done" (process returned)
    reply,        \* the completion service's reply, once requested
    result,       \* the text process returns
    requests,     \* completion requests issued
    conf_loaded,  \* load_conf() has been called
    calls,        \* calls of process / conversation_parts begun
    file_exists,  \* POINTS_FILE exists
    file,         \* the "points" mapping stored in POINTS_FILE: pid -> list of points
    clock,        \* localtime(), in hours
    trace,        \* the push and pop invocations completed, with what each sent to the editor
    inv           \* per BBEdit process: its running invocation between file read and write

chatVars == <<content, lines, idx, last_kind, block, out, pc, reply, result, requests,
              conf_loaded, calls>>

jumpVars == <<file_exists, file, clock, trace, inv>>

vars == <<chatVars, jumpVars>>

procVars == <<reply, result, requests, conf_loaded>>

St == [last_kind |-> last_kind, block |-> block, out |-> out]

Idle == [pc |-> "idle", map |-> EmptyMap, point |-> NoPoint]

Init ==
    /\ content = <<>>
    /\ lines = <<>>
    /\ idx = 0
    /\ last_kind = "undefined"
    /\ block = <<>>
    /\ out = <<>>
    /\ pc = "idle"
    /\ reply = <<>>
    /\ result = <<>>
    /\ requests = 0
    /\ conf_loaded = FALSE
    /\ calls = 0
    /\ file_exists = FALSE
    /\ file = EmptyMap
    /\ clock = 0
    /\ trace = <<>>
    /\ inv = [p \in Pids |-> Idle]

\* the call: the document arrives, is split into lines, and the generator
\* starts with last_kind undefined and an empty block
Start(docs) ==
    /\ pc = "idle"
    /\ content' \in docs
    /\ lines' = splitlines(content')
    /\ pc' = "loop"
    /\ calls' = calls + 1
    /\ UNCHANGED <<idx, last_kind, block, out, procVars, jumpVars>>

LoopIter ==
    /\ pc = "loop"
    /\ idx < Len(groupby(lines))
    /\ LET st == PartsIter(St, groupby(lines)[idx + 1])
       IN  /\ last_kind' = st.last_kind
           /\ block' = st.block
           /\ out' = st.out
    /\ idx' = idx + 1
    /\ UNCHANGED <<content, lines, pc, procVars, calls, jumpVars>>

LoopEnd ==
    /\ pc = "loop"
    /\ idx = Len(groupby(lines))
    /\ out' = PartsEnd(St).out
    /\ pc' = "returned"
    /\ UNCHANGED <<content, lines, idx, last_kind, block, procVars, calls, jumpVars>>

ReturnUnchanged ==
    /\ pc = "returned"
    /\ LastIsAssistant(Messages(out))
    /\ result' = content
    /\ pc' = "done"
    /\ UNCHANGED <<content, lines, idx, last_kind, block, out, reply, requests,
                   conf_loaded, calls, jumpVars>>

Request(replies) ==
    /\ pc = "returned"
    /\ ~LastIsAssistant(Messages(out))
    /\ \E r \in replies :
          /\ reply' = r
          /\ result' = Extended(content, r)
    /\ conf_loaded' = TRUE
    /\ requests' = requests + 1
    /\ pc' = "done"
    /\ UNCHANGED <<content, lines, idx, last_kind, block, out, calls, jumpVars>>

RequestAndAppend == Request(Texts(MaxReplyLen))

\* process called again on the text the first call returned
Reinvoke ==
    /\ pc = "done"
    /\ calls = 1
    /\ content' = result
    /\ lines' = splitlines(result)
    /\ idx' = 0
    /\ last_kind' = "undefined"
    /\ block' = <<>>
    /\ out' = <<>>
    /\ pc' = "loop"
    /\ calls' = 2
    /\ UNCHANGED <<procVars, jumpVars>>

\* conversation_parts(content.splitlines()) on its own
CallParts == Start(Texts(MaxLen))

Next == CallParts \/ LoopIter \/ LoopEnd

Spec == Init /\ [][Next]_vars

CallPartsLive == Start(Texts(MaxLiveLen))

FairNext == CallPartsLive \/ LoopIter \/ LoopEnd

\* the caller iterates the generator to exhaustion
FairSpec == Init /\ [][FairNext]_vars /\ WF_vars(FairNext)

\* process(content)
CallProcess == Start(Texts(MaxDocLen))

ProcessNext == CallProcess \/ LoopIter \/ LoopEnd \/ ReturnUnchanged \/ RequestAndAppend

ProcessSpec == Init /\ [][ProcessNext]_vars

CallRerun == Start(Texts(MaxRerunLen))

RequestRerun == Request(Texts(MaxRerunLen))

RerunNext ==
    CallRerun \/ LoopIter \/ LoopEnd \/ ReturnUnchanged \/ RequestRerun \/ Reinvoke

\* process(process(content))
RerunSpec == Init /\ [][RerunNext]_vars

(* ---------------------------------------------------------------------- *)
(* push and pop                                                            *)
(* ---------------------------------------------------------------------- *)

Event(op, pid, point, hit) == [op |-> op, pid |-> pid, point |-> point, hit |-> hit]

\* push(): the whole invocation for front pid p with the cursor at c
Push(p, c) ==
    /\ Len(trace) < MaxOps
    /\ LET now == clock
           point == JumpPoint(c, now)
           points_map == get_points(file_exists, file, now - MAX_AGE)
       IN  /\ file' = save_points(PushMap(points_map, p, point))
           /\ file_exists' = TRUE
           /\ trace' = Append(trace, Event("push", p, point, TRUE))
    /\ UNCHANGED <<clock, inv, chatVars>>

\* pop(): the whole invocation for front pid p
Pop(p) ==
    /\ Len(trace) < MaxOps
    /\ LET points_map == get_points(file_exists, file, clock - MAX_AGE)
       IN  IF p \notin DOMAIN points_map
           THEN /\ trace' = Append(trace, Event("pop", p, NoPoint, FALSE))
                /\ UNCHANGED <<file, file_exists>>
           ELSE /\ file' = save_points(PopMap(points_map, p))
                /\ file_exists' = TRUE
                /\ trace' = Append(trace, Event("pop", p, Popped(points_map, p), TRUE))
    /\ UNCHANGED <<clock, inv, chatVars>>

\* an hour passes
Tick ==
    /\ clock < MaxTime
    /\ clock' = clock + 1
    /\ UNCHANGED <<file_exists, file, trace, inv, chatVars>>

PushAny == \E p \in Pids, c \in Cursors : Push(p, c)

PopAny == \E p \in Pids : Pop(p)

JumpNext == PushAny \/ PopAny \/ Tick

\* invocations one after the other
JumpSpec == Init /\ [][JumpNext]_vars

Running == {p \in Pids : inv[p].pc # "idle"}

\* push() up to get_points: the point is built and the file read
PushRead(p, c) ==
    /\ inv[p].pc = "idle"
    /\ Len(trace) + Cardinality(Running) < MaxRaceOps
    /\ inv' = [inv EXCEPT ![p] =
                  [pc |-> "push",
                   map |-> get_points(file_exists, file, clock - MAX_AGE),
                   point |-> JumpPoint(c, clock)]]
    /\ UNCHANGED <<file_exists, file, clock, trace, chatVars>>

\* push() from front_app_pid() on: the point is appended and the file written
PushWrite(p) ==
    /\ inv[p].pc = "push"
    /\ file' = save_points(PushMap(inv[p].map, p, inv[p].point))
    /\ file_exists' = TRUE
    /\ trace' = Append(trace, Event("push", p, inv[p].point, TRUE))
    /\ inv' = [inv EXCEPT ![p] = Idle]
    /\ UNCHANGED <<clock, chatVars>>

\* pop() up to get_points
PopRead(p) ==
    /\ inv[p].pc = "idle"
    /\ Len(trace) + Cardinality(Running) < MaxRaceOps
    /\ inv' = [inv EXCEPT ![p] =
                  [pc |-> "pop",
                   map |-> get_points(file_exists, file, clock - MAX_AGE),
                   point |-> NoPoint]]
    /\ UNCHANGED <<file_exists, file, clock, trace, chatVars>>

\* pop() from front_app_pid() on
PopWrite(p) ==
    /\ inv[p].pc = "pop"
    /\ IF p \notin DOMAIN inv[p].map
       THEN /\ trace' = Append(trace, Event("pop", p, NoPoint, FALSE))
            /\ UNCHANGED <<file, file_exists>>
       ELSE /\ file' = save_points(PopMap(inv[p].map, p))
            /\ file_exists' = TRUE
            /\ trace' = Append(trace, Event("pop", p, Popped(inv[p].map, p), TRUE))
    /\ inv' = [inv EXCEPT ![p] = Idle]
    /\ UNCHANGED <<clock, chatVars>>

PushReadAny == \E p \in Pids, c \in Cursors : PushRead(p, c)

PushWriteAny == \E p \in Pids : PushWrite(p)

PopReadAny == \E p \in Pids : PopRead(p)

PopWriteAny == \E p \in Pids : PopWrite(p)

RaceNext == PushReadAny \/ PushWriteAny \/ PopReadAny \/ PopWriteAny

\* invocations of different BBEdit processes may overlap; nothing in the
\* code orders one invocation's read and write against another's
RaceSpec == Init /\ [][RaceNext]_vars

TypeOK ==
    /\ last_kind \in Kind
    /\ pc \in {"idle", "loop", "returned", "done"}
    /\ idx \in 0..Len(groupby(lines))
    /\ requests \in 0..2
    /\ calls \in 0..2
    /\ clock \in 0..MaxTime

(* ---------------------------------------------------------------------- *)
(* Properties of conversation_parts (checked under Spec / FairSpec)        *)
(* ---------------------------------------------------------------------- *)

Content == {"user", "assistant"}

\* index of the first line classified user or assistant, 0 when there is none
FirstContent(ls) ==
    IF \E i \in 1..Len(ls) : classify(ls[i]) \in Content
    THEN CHOOSE i \in 1..Len(ls) :
            /\ classify(ls[i]) \in Content
            /\ \A j \in 1..(i - 1) : classify(ls[j]) \notin Content
    ELSE 0

OnlyHeadersAndBlanks(ls) == \A i \in 1..Len(ls) : classify(ls[i]) \in {"header", "space"}

\* C1: the messages yielded by conversation_parts never hold two adjacent
\* entries with the same role, at any point of the iteration and at its end.
C1_Alternation ==
    \A k \in 1..(Len(out) - 1) : out[k].role # out[k + 1].role

\* two messages were yielded from a document in which two neighbouring lines
\* have the same role
C1_Witness ==
    /\ pc = "returned"
    /\ Len(out) = 2
    /\ \E i \in 1..(Len(lines) - 1) :
          classify(lines[i]) \in Content /\ classify(lines[i + 1]) = classify(lines[i])

\* C5: when a content line exists, everything before the first content line
\* is discarded: the result is the segmentation of the input from that line
\* on, and the first message has the role of that line's kind.
C5_LeadingSkip ==
    pc = "returned" =>
        LET k == FirstContent(lines)
        IN  k > 0 =>
              /\ out # <<>>
              /\ out[1].role = classify(lines[k])
              /\ out[1].role \in Content
              /\ out = conversation_parts(SubSeq(lines, k, Len(lines)))

\* a header line and a blank line both precede the first content line
C5_Witness ==
    /\ pc = "returned"
    /\ FirstContent(lines) >= 3
    /\ \E i \in 1..(FirstContent(lines) - 1) : classify(lines[i]) = "header"
    /\ \E i \in 1..(FirstContent(lines) - 1) : classify(lines[i]) = "space"
    /\ out # <<>>

\* C6: an input whose lines are all headers or blanks (the empty input
\* included) yields no message, during the iteration and after it.
C6_EmptyInput ==
    OnlyHeadersAndBlanks(lines) => out = <<>> /\ block = <<>> /\ last_kind = "undefined"

\* the generator is exhausted on an input mixing header and blank lines
C6_Witness ==
    /\ pc = "returned"
    /\ OnlyHeadersAndBlanks(lines)
    /\ \E i \in 1..Len(lines) : classify(lines[i]) = "header"
    /\ \E i \in 1..Len(lines) : classify(lines[i]) = "space"
    /\ out = <<>>

\* content_from applied to the lines of its own result gives that result
Idempotent(ls) == content_from(splitlines(content_from(ls))) = content_from(ls)

\* no line of the text c begins with the quote marker
NoQuoteLine(c) == \A i \in 1..Len(splitlines(c)) : ~startswith(splitlines(c)[i], ">")

\* C8 as stated: content_from is idempotent on every list of lines.
C8_Idempotent == Idempotent(lines)

\* C8 amended: content_from is idempotent on every list of lines whose
\* normalized content has no line beginning with the quote marker.
C8_IdempotentUnquoted == NoQuoteLine(content_from(lines)) => Idempotent(lines)

\* normalization changed the text (outer blank lines dropped or a blank run
\* collapsed) and left several lines none of which begins with the marker
C8_Witness ==
    /\ NoQuoteLine(content_from(lines))
    /\ content_from(lines) # join(lines)
    /\ Len(splitlines(content_from(lines))) >= 3
    /\ Idempotent(lines)

\* three newlines in a row occur in s
HasTripleNL(s) ==
    \E i \in 1..(Len(s) - 2) : s[i] = NL /\ s[i + 1] = NL /\ s[i + 2] = NL

Canonical(c) ==
    /\ ~HasTripleNL(c)
    /\ c # <<>> => c[1] \notin Whitespace /\ c[Len(c)] \notin Whitespace
    /\ \A i \in 1..Len(splitlines(c)) :
          LET l == splitlines(c)[i]
          IN  l # <<>> => l[1] \notin Whitespace /\ l[Len(l)] \notin Whitespace

\* C9: every content string yielded is canonical: no three consecutive
\* newlines, no leading or trailing whitespace, no line with leading or
\* trailing whitespace.
C9_CanonicalContent ==
    \A k \in 1..Len(out) : Canonical(out[k].content)

\* a block whose two content lines were three newlines apart was yielded
\* with exactly one blank line between them
C9_Witness ==
    /\ pc = "returned"
    /\ Len(lines) >= 4
    /\ Len(out) = 1
    /\ out[1].content = <<"a", NL, NL, "a">>

ClassifyTotal == \A i \in 1..Len(lines) : classify(lines[i]) \in Kind \ {"undefined"}

PartsReturned == pc = "returned" /\ idx = Len(groupby(lines))

\* C10: classify gives every line one of the four real kinds, never the
\* undefined sentinel, and conversation_parts consumes every run and returns.
C10_Total == []ClassifyTotal /\ <>PartsReturned

\* the generator returned after consuming the runs of a document that made
\* it flush one block and yield the last
C10_Witness ==
    /\ PartsReturned
    /\ Len(groupby(lines)) >= 2
    /\ Len(out) = 2

\* the lines of ls that are not header lines
WithoutHeaders(ls) == SelectSeq(ls, LAMBDA l : classify(l) # "header")

\* C12: header lines never affect the result: the messages are those of the
\* input with every header line deleted.
C12_HeadersIgnored ==
    pc = "returned" => out = conversation_parts(WithoutHeaders(lines))

\* a header line stands between two lines of the same role, and the one
\* message yielded holds both
C12_Witness ==
    /\ pc = "returned"
    /\ \E i \in 2..(Len(lines) - 1) :
          /\ classify(lines[i]) = "header"
          /\ classify(lines[i - 1]) \in Content
          /\ classify(lines[i + 1]) = classify(lines[i - 1])
    /\ Len(out) = 1
    /\ Len(splitlines(out[1].content)) = 2

\* the kinds of the content lines of ls, in order
ContentKinds(ls) ==
    LET cs == SelectSeq(ls, LAMBDA l : classify(l) \in Content)
    IN  [i \in 1..Len(cs) |-> classify(cs[i])]

\* ks with every element equal to its predecessor removed
RECURSIVE Dedup(_)
Dedup(ks) ==
    IF Len(ks) <= 1 THEN ks
    ELSE IF ks[1] = ks[2] THEN Dedup(Tail(ks))
    ELSE <<ks[1]>> \o Dedup(Tail(ks))

\* number of positions of ks whose element differs from its predecessor
Changes(ks) == Cardinality({i \in 2..Len(ks) : ks[i] # ks[i - 1]})

Roles(ms) == [k \in 1..Len(ms) |-> ms[k].role]

\* C13: the roles of the messages are the kinds of the content lines with
\* adjacent duplicates removed, whatever blank lines lie between them; with
\* at least one content line the number of messages is the number of role
\* changes plus one.
C13_RolesFollowContent ==
    pc = "returned" =>
        /\ Roles(out) = Dedup(ContentKinds(lines))
        /\ ContentKinds(lines) # <<>> => Len(out) = Changes(ContentKinds(lines)) + 1

\* blank lines lie between content lines of different roles
C13_Witness ==
    /\ pc = "returned"
    /\ Len(out) = 2
    /\ \E i \in 2..(Len(lines) - 1) :
          /\ classify(lines[i]) = "space"
          /\ classify(lines[i - 1]) \in Content
          /\ classify(lines[i + 1]) \in Content
          /\ classify(lines[i + 1]) # classify(lines[i - 1])

\* for a position i at or after the first content line: the number of the
\* message the line belongs to, counting role changes among the content lines
\* up to i
GroupAt(ls, i) ==
    Len(Dedup(ContentKinds(SubSeq(ls, 1, i))))

\* positions of the lines that belong to message k: content and blank lines
\* from the first content line of the group up to the next group
Members(ls, k) ==
    {i \in 1..Len(ls) : classify(ls[i]) # "header" /\ GroupAt(ls, i) = k}

\* the lines at the positions ps of ls, in input order
RECURSIVE Pick(_, _, _)
Pick(ls, ps, i) ==
    IF i > Len(ls) THEN <<>>
    ELSE (IF i \in ps THEN <<ls[i]>> ELSE <<>>) \o Pick(ls, ps, i + 1)

\* what the segmentation owes: one message per group of content lines, its
\* text made from the group's lines in input order
Expected(ls) ==
    LET ks == Dedup(ContentKinds(ls))
    IN  [k \in 1..Len(ks) |->
            [role |-> ks[k], content |-> content_from(Pick(ls, Members(ls, k), 1))]]

\* C14: every content line goes to exactly one message, of the line's own
\* kind, in input order, and the only other lines a block holds are blank:
\* the messages are those made from the groups of content lines, and the open
\* block holds only lines of its role and blank lines.
C14_ContentLinesKept ==
    /\ \A i \in 1..Len(block) : classify(block[i]) \in {last_kind, "space"}
    /\ pc = "returned" => out = Expected(lines)

\* two messages, the first made of two content lines around a blank line
C14_Witness ==
    /\ pc = "returned"
    /\ Len(out) = 2
    /\ Len(splitlines(out[1].content)) = 3
    /\ Cardinality(Members(lines, 1)) = 3

BlockMatchesRole ==
    /\ (block = <<>>) <=> (last_kind = "undefined")
    /\ block # <<>> => classify(block[1]) = last_kind

\* a message is yielded only from a non-empty block
YieldsFromBlock == (out' # out) => block # <<>>

\* C15: the open block is empty exactly when the role is undefined, a
\* non-empty block starts with a line of the current role, and every message
\* is yielded from a non-empty block.
C15_BlockInvariant == []BlockMatchesRole /\ [][YieldsFromBlock]_vars

\* the input opens with header, blank, header, content and its message was
\* yielded
C15_Witness ==
    /\ pc = "returned"
    /\ Len(lines) >= 4
    /\ classify(lines[1]) = "header"
    /\ classify(lines[2]) = "space"
    /\ classify(lines[3]) = "header"
    /\ classify(lines[4]) \in Content
    /\ Len(out) = 1

\* C16 as stated: every message yielded has a non-empty content string.
C16_NonEmptyContent ==
    \A k \in 1..Len(out) : out[k].content # <<>>

\* the line holds nothing but quote markers followed by whitespace
BareMarker(l) == strip(lstrip(l, {">"})) = <<>>

\* C16 amended: every user message has non-empty content, and an assistant
\* message has empty content exactly when every assistant line of its block
\* holds nothing but quote markers followed by whitespace.
C16_EmptyOnlyBareMarkers ==
    pc = "returned" =>
        \A k \in 1..Len(out) :
            /\ out[k].role = "user" => out[k].content # <<>>
            /\ out[k].role = "assistant" =>
                  ((out[k].content = <<>>) <=>
                      \A i \in Members(lines, k) : BareMarker(lines[i]))

\* an assistant message with text and an assistant message without, after a
\* user message
C16_Witness ==
    /\ pc = "returned"
    /\ Len(out) >= 2
    /\ \E k \in 1..Len(out) : out[k].role = "assistant" /\ out[k].content = <<>>
    /\ \E k \in 1..Len(out) : out[k].role = "user" /\ out[k].content # <<>>

(* ---------------------------------------------------------------------- *)
(* Properties of process (checked under ProcessSpec)                       *)
(* ---------------------------------------------------------------------- *)

Last(q) == q[Len(q)]

ReplyLines == splitlines(reply)

\* the segmentation of the text process returned
Resegmented == conversation_parts(splitlines(result))

\* the lines of ls that hold something other than whitespace
NonBlank(ls) == SelectSeq(ls, LAMBDA l : strip(l) # <<>>)

\* each line trimmed of surrounding whitespace, joined, blank-line runs
\* collapsed, outer blank lines removed; the quote marker is left alone
Trimmed(ls) == SPACES_sub(strip(join([i \in 1..Len(ls) |-> strip(ls[i])])))

\* number of characters of s before its trailing whitespace
BodyLen(s) ==
    IF \E i \in 1..Len(s) : s[i] \notin Whitespace
    THEN CHOOSE i \in 1..Len(s) :
            /\ s[i] \notin Whitespace
            /\ \A j \in (i + 1)..Len(s) : s[j] \in Whitespace
    ELSE 0

\* the reply's lines, each behind the quote marker and a space
Quoted == [i \in 1..Len(ReplyLines) |-> <<">", SP>> \o ReplyLines[i]]

\* C2: when the segmentation ends with an assistant message, process returns
\* the input text unchanged, loads no configuration and issues no request.
C2_SkipAfterAssistant ==
    (pc = "done" /\ out # <<>> /\ Last(out).role = "assistant") =>
        /\ result = content
        /\ requests = 0
        /\ ~conf_loaded

\* process returned on a document of a user message followed by an
\* assistant message
C2_Witness ==
    /\ pc = "done"
    /\ Len(out) = 2
    /\ Last(out).role = "assistant"
    /\ result = content

\* C3 as stated: after a request with a multi-line reply, the returned text
\* segments to a list ending in an assistant message whose content is the
\* reply up to blank lines (the same non-blank lines, in order). Stated for
\* the documents whose last message is a user message.
C3_RoundTripExact ==
    (pc = "done" /\ requests = 1 /\ out # <<>> /\ Len(ReplyLines) >= 2) =>
        /\ Resegmented # <<>>
        /\ Last(Resegmented).role = "assistant"
        /\ NonBlank(splitlines(Last(Resegmented).content)) = NonBlank(ReplyLines)

\* C3 amended: after a request with a reply of at least one line, the
\* returned text segments to a list ending in an assistant message whose
\* content is the reply with every line trimmed of surrounding whitespace,
\* blank-line runs collapsed and outer blank lines removed.
C3_RoundTripTrimmed ==
    (pc = "done" /\ requests = 1 /\ Len(ReplyLines) >= 1) =>
        /\ Resegmented # <<>>
        /\ Last(Resegmented).role = "assistant"
        /\ Last(Resegmented).content = Trimmed(ReplyLines)

\* a multi-line reply was appended to a document holding a user message, and
\* the recovered content is not empty and differs from the raw reply
C3_Witness ==
    /\ pc = "done"
    /\ requests = 1
    /\ out # <<>>
    /\ Len(ReplyLines) >= 2
    /\ Last(Resegmented).content # <<>>
    /\ Last(Resegmented).content # reply

\* C4: when a request is issued, the returned text is the input up to its
\* trailing whitespace, character for character, then two newlines, then the
\* reply's lines each prefixed with "> " and joined by newlines; each such
\* line classifies as assistant, and when the input has a body the lines of
\* the result are its lines, one empty line, and the prefixed lines.
C4_AppendFrame ==
    (pc = "done" /\ requests = 1) =>
        LET n == BodyLen(content)
        IN  /\ Len(result) >= n + 2
            /\ SubSeq(result, 1, n) = SubSeq(content, 1, n)
            /\ \A i \in (n + 1)..Len(content) : content[i] \in Whitespace
            /\ result[n + 1] = NL
            /\ result[n + 2] = NL
            /\ SubSeq(result, n + 3, Len(result)) = join(Quoted)
            /\ splitlines(SubSeq(result, n + 3, Len(result))) = Quoted
            /\ \A i \in 1..Len(Quoted) : classify(Quoted[i]) = "assistant"
            /\ n > 0 =>
                  splitlines(result)
                      = splitlines(SubSeq(content, 1, n)) \o <<<<>>>> \o Quoted

\* a two-line reply was appended to a document that holds a user message
\* followed by trailing whitespace
C4_Witness ==
    /\ pc = "done"
    /\ requests = 1
    /\ BodyLen(content) > 0
    /\ BodyLen(content) < Len(content)
    /\ out # <<>>
    /\ Len(ReplyLines) >= 2

\* C7 as stated: when the message list is empty, process issues no request
\* and returns the input unchanged.
C7_SkipOnEmpty ==
    (pc = "done" /\ out = <<>>) =>
        /\ requests = 0
        /\ ~conf_loaded
        /\ result = content

(* ---------------------------------------------------------------------- *)
(* Properties of process applied twice (checked under RerunSpec)           *)
(* ---------------------------------------------------------------------- *)

\* C17 as stated: once the first call of process has appended a reply, the
\* second call, on the text the first returned, issues no further request
\* and returns that text unchanged, for any document and any reply.
C17_Idempotent ==
    (calls = 2 /\ pc = "done" /\ requests >= 1 /\ out # <<>>) =>
        /\ requests = 1
        /\ result = content

\* the second call is under way, the first call issued the one request so
\* far, and its reply has at least one line
SecondAfterReply == calls = 2 /\ requests = 1 /\ ReplyLines # <<>>

RerunSettled ==
    SecondAfterReply =>
        /\ pc = "returned" => LastIsAssistant(Messages(out))
        /\ pc = "done" => result = content

NoSecondRequest == SecondAfterReply => requests' = 1

\* C17, amended: once the first call of process has appended a reply of at
\* least one line, the second call, on the text the first returned, finds an
\* assistant message last, issues no further request and returns that text
\* unchanged.
C17_IdempotentAfterReply == []RerunSettled /\ [][NoSecondRequest]_vars

\* the second call returned the text of a user message followed by the
\* quoted reply
C17_Witness ==
    /\ calls = 2
    /\ pc = "done"
    /\ requests = 1
    /\ ReplyLines # <<>>
    /\ Len(out) = 2
    /\ out[1].role = "user"
    /\ out[2].role = "assistant"
    /\ result = content

(* ---------------------------------------------------------------------- *)
(* Properties of push and pop (checked under JumpSpec / RaceSpec)          *)
(* ---------------------------------------------------------------------- *)

\* the points stored for pid, [] when the file or the pid is missing
Stored(f, pid) == IF pid \in DOMAIN f THEN f[pid] ELSE <<>>

\* the stack a sequence of push and pop events leaves behind
RECURSIVE StackOf(_)
StackOf(tr) ==
    IF tr = <<>> THEN <<>>
    ELSE LET before == StackOf(SubSeq(tr, 1, Len(tr) - 1))
             e == tr[Len(tr)]
         IN  IF e.op = "push" THEN Append(before, e.point)
             ELSE IF before = <<>> THEN before
             ELSE SubSeq(before, 1, Len(before) - 1)

SinglePid == \A i, j \in 1..Len(trace) : trace[i].pid = trace[j].pid

\* no point pushed so far is older than MAX_AGE now, hence none was at any
\* earlier invocation
NoExpiry ==
    \A i \in 1..Len(trace) :
        trace[i].op = "push" => trace[i].point.added >= clock - MAX_AGE

\* C11: with a single pid, no expiry and one invocation after the other,
\* every pop sends the editor to the most recently pushed point not yet
\* popped (and to none when there is none), and the stored list is the
\* stack of the pushes not yet popped, so successive pops walk back in
\* reverse push order.
C11_Lifo ==
    (SinglePid /\ NoExpiry) =>
        /\ \A i \in 1..Len(trace) :
              trace[i].op = "pop" =>
                  LET before == StackOf(SubSeq(trace, 1, i - 1))
                  IN  IF before = <<>>
                      THEN ~trace[i].hit
                      ELSE /\ trace[i].hit
                           /\ trace[i].point = before[Len(before)]
        /\ \A p \in Pids :
              (trace # <<>> /\ trace[1].pid = p) =>
                  Stored(file, p) = StackOf(trace)

\* two pushes at different cursors, then two pops that walked back through
\* them in reverse order and left nothing stored
C11_Witness ==
    /\ SinglePid
    /\ NoExpiry
    /\ Len(trace) = 4
    /\ trace[1].op = "push"
    /\ trace[2].op = "push"
    /\ trace[1].point # trace[2].point
    /\ trace[3].op = "pop"
    /\ trace[3].point = trace[2].point
    /\ trace[4].op = "pop"
    /\ trace[4].point = trace[1].point
    /\ file_exists
    /\ file = EmptyMap

\* the step is a push or a pop invocation
Invoked == trace' # trace

Done == trace'[Len(trace')]

\* the invocation wrote the file: every push, and a pop that found a point
Wrote == Done.op = "push" \/ Done.hit

FreshFile(f, oldest) ==
    \A pid \in DOMAIN f :
        /\ f[pid] # <<>>
        /\ \A i \in 1..Len(f[pid]) : f[pid][i].added >= oldest

ExpiryStep ==
    Invoked =>
        /\ (Done.op = "pop" /\ Done.hit) => Done.point.added >= clock - MAX_AGE
        /\ Wrote => (file_exists' /\ FreshFile(file', clock - MAX_AGE))

\* C18: a pop never jumps to a point added more than MAX_AGE before it, and
\* the file a push or pop writes holds no point added more than MAX_AGE
\* before that invocation and no pid with an empty list.
C18_Expiry == [][ExpiryStep]_vars

\* pid 1 pushed, more than MAX_AGE later pid 2 pushed, and a pop for pid 1
\* then found nothing: the file holds pid 2's point only
C18_Witness ==
    /\ Len(trace) = 3
    /\ trace[1].op = "push"
    /\ trace[1].pid = 1
    /\ trace[2].op = "push"
    /\ trace[2].pid = 2
    /\ trace[2].point.added > trace[1].point.added + MAX_AGE
    /\ trace[3].op = "pop"
    /\ trace[3].pid = 1
    /\ ~trace[3].hit
    /\ DOMAIN file = {2}

IsolationStep ==
    Invoked =>
        /\ \A q \in Pids \ {Done.pid} :
              Unexpired(Stored(file', q), clock - MAX_AGE)
                  = Unexpired(Stored(file, q), clock - MAX_AGE)
        /\ (Done.op = "pop" /\ Unexpired(Stored(file, Done.pid), clock - MAX_AGE) = <<>>) =>
              /\ ~Done.hit
              /\ file' = file
              /\ file_exists' = file_exists

\* C20: a push or pop for pid P leaves the unexpired points of every other
\* pid as they were, in content and order, and a pop for a pid without
\* unexpired points neither rewrites the file nor calls the editor.
C20_Isolation == [][IsolationStep]_vars

\* pid 2 holds points; pid 1 popped its point and popped again, finding
\* nothing
C20_Witness ==
    /\ Len(trace) >= 3
    /\ trace[Len(trace)].op = "pop"
    /\ trace[Len(trace)].pid = 1
    /\ ~trace[Len(trace)].hit
    /\ trace[Len(trace) - 1].op = "pop"
    /\ trace[Len(trace) - 1].pid = 1
    /\ trace[Len(trace) - 1].hit
    /\ Stored(file, 2) # <<>>

\* pushes completed for pid
Pushes(pid) ==
    Cardinality({i \in 1..Len(trace) : trace[i].op = "push" /\ trace[i].pid = pid})

\* pops completed for pid that sent the editor to a point
Pops(pid) ==
    Cardinality({i \in 1..Len(trace) :
                    trace[i].op = "pop" /\ trace[i].pid = pid /\ trace[i].hit})

\* C19 as stated: when every invocation has finished, however their reads
\* and writes of the file interleaved, each pid's stored list holds every
\* point pushed and none popped: as many points as were pushed less those
\* popped (no point expires in RaceSpec).
C19_NoLostUpdate ==
    Running = {} =>
        \A p \in Pids : Len(Stored(file, p)) = Pushes(p) - Pops(p)

====
